---- MODULE Spec2Model ----
(***************************************************************************)
(* trendt-bencode: the raw tree codec (encode.rs, decode.rs), the typed    *)
(* pull decoder (de.rs) and the typed push encoder with its sorted-map     *)
(* staging (ser.rs), as one state machine.  A run is one session with one  *)
(* of the three objects: a raw Decoder, a typed Deserializer or a typed    *)
(* Serializer.  Bytes are their numeric values (0..255).                   *)
(***************************************************************************)
EXTENDS Integers, Sequences, FiniteSets, TLC

VARIABLES
    mode,        \* which object this session drives: "raw", "de" or "ser"
    input,       \* Decoder.input / Deserializer.input
    position,    \* Decoder.position / Deserializer.position
    last,        \* the last call on the object: its name, what it returned,
                 \* and the position before it
    source,      \* raw session: the Value the input was encoded from, or NoSource
    target,      \* typed decode session: the target type T of from_bytes
    phase,       \* typed decode / encode session: where the driver stands
    acc,         \* typed decode session: what the visitor has collected so far
    output,      \* Serializer.output (the parent sink)
    entries,     \* SortedMapSerializer.entries
    current_key, \* SortedMapSerializer.current_key
    visits       \* encode session: the key and value visits made on the open map

vars == <<mode, input, position, last, source, target, phase, acc,
          output, entries, current_key, visits>>

-----------------------------------------------------------------------------
(* Bounds of the model.                                                    *)

\* Longest enumerated raw input (every byte string over Alphabet up to it).
MaxLen == 3
\* Most calls made on one decoder object in a session.
MaxCalls == 2

-----------------------------------------------------------------------------
(* Bytes.                                                                  *)

\* The byte literals the code names: b'i', b'l', b'd', b'e', b':', b'-',
\* b'+', b'0', b'9'.
B == [i |-> 105, l |-> 108, d |-> 100, e |-> 101, colon |-> 58,
      minus |-> 45, plus |-> 43, zero |-> 48, nine |-> 57]

\* u8::is_ascii_digit
IsAsciiDigit(b) == b >= B.zero /\ b <= B.nine

\* Ord for [u8] / Vec<u8>: byte-lexicographic, a proper prefix first.
RECURSIVE BytesLess(_, _)
BytesLess(a, b) ==
    IF b = <<>> THEN FALSE
    ELSE IF a = <<>> THEN TRUE
    ELSE IF a[1] # b[1] THEN a[1] < b[1]
    ELSE BytesLess(Tail(a), Tail(b))

\* std::str::from_utf8(bytes).is_ok(): the bytes are a run of well-formed
\* UTF-8 sequences.  A lead byte fixes the width and the range of the second
\* byte (no overlong form, no surrogate, nothing above U+10FFFF); the other
\* continuation bytes are 0x80..=0xBF.
RECURSIVE IsUtf8(_)
IsUtf8(bytes) ==
    LET n == Len(bytes)
        b1 == bytes[1]
        within(k, lo, hi) == k <= n /\ bytes[k] >= lo /\ bytes[k] <= hi
        tail(k) == \A j \in 3..k : within(j, 128, 191)
        width == IF b1 < 128 THEN 1
                 ELSE IF b1 >= 194 /\ b1 <= 223 /\ within(2, 128, 191) THEN 2
                 ELSE IF b1 = 224 /\ within(2, 160, 191) /\ tail(3) THEN 3
                 ELSE IF b1 = 237 /\ within(2, 128, 159) /\ tail(3) THEN 3
                 ELSE IF b1 >= 225 /\ b1 <= 239 /\ b1 # 237
                         /\ within(2, 128, 191) /\ tail(3) THEN 3
                 ELSE IF b1 = 240 /\ within(2, 144, 191) /\ tail(4) THEN 4
                 ELSE IF b1 >= 241 /\ b1 <= 243 /\ within(2, 128, 191) /\ tail(4) THEN 4
                 ELSE IF b1 = 244 /\ within(2, 128, 143) /\ tail(4) THEN 4
                 ELSE 0
    IN  \/ bytes = <<>>
        \/ width > 0 /\ IsUtf8(SubSeq(bytes, width + 1, n))

\* str::chars().count() on well-formed UTF-8: one char per byte that is not
\* a continuation byte.
Utf8Chars(bytes) ==
    Cardinality({k \in 1..Len(bytes) : bytes[k] < 128 \/ bytes[k] >= 192})

-----------------------------------------------------------------------------
(* Results.  st is "ok", "err" (Result::Err returned to the caller) or     *)
(* "panic" (the call unwinds instead of returning); pos is the object's    *)
(* position when the call ends.                                            *)

Unit == <<>>
Ok(v, p) == [st |-> "ok", val |-> v, err |-> <<>>, pos |-> p]
Err(e, p) == [st |-> "err", val |-> Unit, err |-> e, pos |-> p]
Panic(p) == [st |-> "panic", val |-> Unit, err |-> <<>>, pos |-> p]
\* The call never returns: it loops without changing the object's state.
Diverge(p) == [st |-> "diverge", val |-> Unit, err |-> <<>>, pos |-> p]

UnexpectedEof == <<"UnexpectedEof">>
InvalidCharacter(b) == <<"InvalidCharacter", b>>
InvalidInteger == <<"InvalidInteger">>
InvalidDictKey == <<"InvalidDictKey">>
UnsortedDictKeys == <<"UnsortedDictKeys">>
Message(m) == <<"Message", m>>

-----------------------------------------------------------------------------
(* Decimal numerals: str::parse::<i64>() and str::parse::<usize>().        *)

\* The decimal digits of i64::MAX, of -i64::MIN and of usize::MAX (64-bit).
I64MaxDigits == <<9,2,2,3,3,7,2,0,3,6,8,5,4,7,7,5,8,0,7>>
I64MinDigits == <<9,2,2,3,3,7,2,0,3,6,8,5,4,7,7,5,8,0,8>>
UsizeMaxDigits == <<1,8,4,4,6,7,4,4,0,7,3,7,0,9,5,5,1,6,1,5>>

DigitsOf(bytes) == [k \in 1..Len(bytes) |-> bytes[k] - B.zero]

RECURSIVE StripZeros(_)
StripZeros(ds) ==
    IF Len(ds) > 1 /\ ds[1] = 0 THEN StripZeros(Tail(ds)) ELSE ds

\* a <= b for digit strings without leading zeros.
RECURSIVE DigitsLeqSameLen(_, _)
DigitsLeqSameLen(a, b) ==
    IF a = <<>> THEN TRUE
    ELSE IF a[1] # b[1] THEN a[1] < b[1]
    ELSE DigitsLeqSameLen(Tail(a), Tail(b))

DigitsLeq(a, b) ==
    IF Len(a) # Len(b) THEN Len(a) < Len(b) ELSE DigitsLeqSameLen(a, b)

\* The number a digit string spells (the checked multiply-and-add loop of
\* from_str_radix once the range check has passed).
RECURSIVE DigitsValue(_)
DigitsValue(ds) ==
    IF ds = <<>> THEN 0 ELSE 10 * DigitsValue(SubSeq(ds, 1, Len(ds) - 1)) + ds[Len(ds)]

\* The decimal digits of a natural number, most significant first, as bytes
\* (u64/usize Display).
RECURSIVE NatToString(_)
NatToString(n) ==
    IF n < 10 THEN <<B.zero + n>>
    ELSE Append(NatToString(n \div 10), B.zero + (n % 10))

\* str::parse::<i64>(): an optional single '+' or '-', then one or more
\* ASCII digits, the value within i64.  [ok, n].
ParseI64(bytes) ==
    LET signed == bytes # <<>> /\ bytes[1] \in {B.plus, B.minus}
        neg == bytes # <<>> /\ bytes[1] = B.minus
        body == IF signed THEN Tail(bytes) ELSE bytes
        ds == StripZeros(DigitsOf(body))
    IN  IF body = <<>> \/ \E k \in 1..Len(body) : ~IsAsciiDigit(body[k])
        THEN [ok |-> FALSE, n |-> 0]
        ELSE IF ~DigitsLeq(ds, IF neg THEN I64MinDigits ELSE I64MaxDigits)
        THEN [ok |-> FALSE, n |-> 0]
        ELSE [ok |-> TRUE, n |-> IF neg THEN 0 - DigitsValue(ds) ELSE DigitsValue(ds)]

\* str::parse::<usize>(): an optional single '+' (no '-'), then one or more
\* ASCII digits, the value within usize.  The length is kept as its digits
\* (ds, without leading zeros): it may exceed the integers of the model.
ParseUsize(bytes) ==
    LET signed == bytes # <<>> /\ bytes[1] = B.plus
        body == IF signed THEN Tail(bytes) ELSE bytes
        ds == StripZeros(DigitsOf(body))
    IN  IF body = <<>> \/ \E k \in 1..Len(body) : ~IsAsciiDigit(body[k])
        THEN [ok |-> FALSE, ds |-> <<>>]
        ELSE IF ~DigitsLeq(ds, UsizeMaxDigits)
        THEN [ok |-> FALSE, ds |-> <<>>]
        ELSE [ok |-> TRUE, ds |-> ds]

\* usize::MAX - len for a length within usize, as three decimal chunks:
\* hi (the digits above 10^18), mid and lo (nine digits each), by
\* subtraction with borrow from 18 | 446744073 | 709551615.
UsizeGap(ds) ==
    LET pad == [k \in 1..20 |-> IF k <= 20 - Len(ds) THEN 0 ELSE ds[k - (20 - Len(ds))]]
        lo0 == DigitsValue(SubSeq(UsizeMaxDigits, 12, 20)) - DigitsValue(SubSeq(pad, 12, 20))
        mid0 == DigitsValue(SubSeq(UsizeMaxDigits, 3, 11)) - DigitsValue(SubSeq(pad, 3, 11))
                - (IF lo0 < 0 THEN 1 ELSE 0)
        hi0 == DigitsValue(SubSeq(UsizeMaxDigits, 1, 2)) - DigitsValue(SubSeq(pad, 1, 2))
               - (IF mid0 < 0 THEN 1 ELSE 0)
    IN  [hi |-> hi0,
         mid |-> IF mid0 < 0 THEN mid0 + 1000000000 ELSE mid0,
         lo |-> IF lo0 < 0 THEN lo0 + 1000000000 ELSE lo0]

\* The outcome of `if self.position + len > self.input.len() { Err(Eof) }`
\* followed by the slice `self.input[self.position..self.position + len]`:
\* "take", "eof" or "panic", size being self.input.len().  The slice is
\* taken when len is at most the bytes left after position (the two
\* compared as decimal numerals).  A
\* larger len is UnexpectedEof unless the sum overflows usize, which it does
\* exactly when usize::MAX - len is below position: then a build with
\* overflow checks panics at the addition, and a build without them wraps
\* the sum to a value below position, passes the test and panics at the
\* slice (start > end), a panic in either build.
TakeOutcome(size, pos, len) ==
    LET left == DigitsOf(NatToString(size - pos))
        gap == UsizeGap(len.ds)
        overflow == /\ gap.hi = 0
                    /\ \/ gap.mid < pos \div 1000000000
                       \/ /\ gap.mid = pos \div 1000000000
                          /\ gap.lo < pos % 1000000000
    IN  IF pos <= size /\ DigitsLeq(len.ds, left) THEN "take"
        ELSE IF overflow THEN "panic"
        ELSE "eof"

-----------------------------------------------------------------------------
(* The cursor (decode.rs Decoder and de.rs Deserializer share it verbatim). *)

\* peek: the byte at position, or UnexpectedEof; the position stays.
Peek(in, pos) ==
    IF pos < Len(in) THEN Ok(in[pos + 1], pos) ELSE Err(UnexpectedEof, pos)

\* A faulty next: position += 1 before the end of the input is tested.
NextByteEager(in, pos) ==
    IF pos < Len(in) THEN Ok(in[pos + 1], pos + 1) ELSE Err(UnexpectedEof, pos + 1)

\* next: peek, then position += 1.
NextByte(in, pos) ==
    LET r == Peek(in, pos)
    IN  IF r.st = "ok" THEN Ok(r.val, pos + 1) ELSE r

\* expect: next, then InvalidCharacter(byte) unless it is the expected one.
Expect(in, pos, expected) ==
    LET r == NextByte(in, pos)
    IN  IF r.st # "ok" THEN r
        ELSE IF r.val # expected THEN Err(InvalidCharacter(r.val), r.pos)
        ELSE Ok(Unit, r.pos)

\* `while self.peek()? != stop { self.next()?; }`: the position of the first
\* stop byte at or after pos, or UnexpectedEof at the end of the input.
RECURSIVE ScanUntil(_, _, _)
ScanUntil(in, pos, stop) ==
    LET r == Peek(in, pos)
    IN  IF r.st # "ok" THEN r
        ELSE IF r.val = stop THEN Ok(Unit, pos)
        ELSE ScanUntil(in, pos + 1, stop)

\* The length loop of decode_byte_string: as ScanUntil(':'), but a byte that
\* is not an ASCII digit fails with InvalidCharacter(byte), not consumed.
RECURSIVE ScanDigits(_, _)
ScanDigits(in, pos) ==
    LET r == Peek(in, pos)
    IN  IF r.st # "ok" THEN r
        ELSE IF r.val = B.colon THEN Ok(Unit, pos)
        ELSE IF ~IsAsciiDigit(r.val) THEN Err(InvalidCharacter(r.val), pos)
        ELSE ScanDigits(in, pos + 1)

-----------------------------------------------------------------------------
(* decode.rs: the raw decoder.                                             *)

\* Decoder::decode_integer
DecodeInteger(in, pos) ==
    LET open == Expect(in, pos, B.i)
        scan == ScanUntil(in, open.pos, B.e)
        bytes == SubSeq(in, open.pos + 1, scan.pos)
        num == ParseI64(bytes)
    IN  IF open.st # "ok" THEN open
        ELSE IF scan.st # "ok" THEN scan
        ELSE IF ~IsUtf8(bytes) \/ ~num.ok THEN Err(InvalidInteger, scan.pos)
        ELSE IF Len(bytes) > 1 /\ bytes[1] = B.zero THEN Err(InvalidInteger, scan.pos)
        ELSE IF bytes = <<B.minus, B.zero>> THEN Err(InvalidInteger, scan.pos)
        ELSE Ok(num.n, Expect(in, scan.pos, B.e).pos)

\* Decoder::decode_byte_string
DecodeByteString(in, pos) ==
    LET scan == ScanDigits(in, pos)
        lenBytes == SubSeq(in, pos + 1, scan.pos)
        len == ParseUsize(lenBytes)
        colon == Expect(in, scan.pos, B.colon)
        how == TakeOutcome(Len(in), colon.pos, len)
    IN  IF scan.st # "ok" THEN scan
        ELSE IF ~IsUtf8(lenBytes) \/ ~len.ok THEN Err(InvalidCharacter(0), scan.pos)
        ELSE IF how = "panic" THEN Panic(colon.pos)
        ELSE IF how = "eof" THEN Err(UnexpectedEof, colon.pos)
        ELSE Ok(SubSeq(in, colon.pos + 1, colon.pos + DigitsValue(len.ds)),
                colon.pos + DigitsValue(len.ds))

\* Decoder::decode_dict: the body is todo!(), which panics when reached.
DecodeDict(in, pos) == Panic(pos)

\* value.rs: the four variants of Value.  Every variant carries all four
\* payload fields, the ones it does not use empty; a Dict's BTreeMap is the
\* set of its <<key, value>> pairs, one per key.
IntegerValue(n) == [t |-> "int", n |-> n, b |-> <<>>, items |-> <<>>, m |-> {}]
ByteStringValue(b) == [t |-> "bytes", n |-> 0, b |-> b, items |-> <<>>, m |-> {}]
ListValue(items) == [t |-> "list", n |-> 0, b |-> <<>>, items |-> items, m |-> {}]
DictValue(m) == [t |-> "dict", n |-> 0, b |-> <<>>, items |-> <<>>, m |-> m]

RECURSIVE DecodeValue(_, _)
RECURSIVE DecodeListItems(_, _, _)

\* The `while self.peek()? != b'e' { items.push(self.decode_value()?) }`
\* loop of decode_list, then its closing expect(b'e').
DecodeListItems(in, pos, items) ==
    LET r == Peek(in, pos)
        item == DecodeValue(in, pos)
    IN  IF r.st # "ok" THEN r
        ELSE IF r.val = B.e THEN Ok(ListValue(items), Expect(in, pos, B.e).pos)
        ELSE IF item.st # "ok" THEN item
        ELSE DecodeListItems(in, item.pos, Append(items, item.val))

\* Decoder::decode_list
DecodeList(in, pos) ==
    LET open == Expect(in, pos, B.l)
    IN  IF open.st # "ok" THEN open ELSE DecodeListItems(in, open.pos, <<>>)

\* Decoder::decode_value
DecodeValue(in, pos) ==
    LET r == Peek(in, pos)
        int == DecodeInteger(in, pos)
        str == DecodeByteString(in, pos)
    IN  IF r.st # "ok" THEN r
        ELSE IF r.val = B.i
        THEN IF int.st = "ok" THEN Ok(IntegerValue(int.val), int.pos) ELSE int
        ELSE IF r.val = B.l THEN DecodeList(in, pos)
        ELSE IF r.val = B.d THEN DecodeDict(in, pos)
        ELSE IF IsAsciiDigit(r.val)
        THEN IF str.st = "ok" THEN Ok(ByteStringValue(str.val), str.pos) ELSE str
        ELSE Err(InvalidCharacter(r.val), pos)

-----------------------------------------------------------------------------
(* encode.rs: the raw encoder.                                             *)

\* i64::to_string: a '-' and the magnitude for a negative number.
I64ToString(n) ==
    IF n < 0 THEN <<B.minus>> \o NatToString(0 - n) ELSE NatToString(n)

\* usize::to_string
UsizeToString(n) == NatToString(n)

\* BTreeMap::get
MapGet(m, key) == (CHOOSE pair \in m : pair[1] = key)[2]

\* BTreeMap::insert: the pair replaces the one the key had.
MapInsert(m, key, value) == {pair \in m : pair[1] # key} \cup {<<key, value>>}

\* BTreeMap iteration order: the keys ascending by Ord for Vec<u8>.
RECURSIVE SortedKeys(_)
SortedKeys(keys) ==
    IF keys = {} THEN <<>>
    ELSE LET least == CHOOSE k \in keys : \A o \in keys : o = k \/ BytesLess(k, o)
         IN  <<least>> \o SortedKeys(keys \ {least})

\* encode_integer
EncodeInteger(n) == <<B.i>> \o I64ToString(n) \o <<B.e>>

\* encode_byte_string
EncodeByteString(bytes) == UsizeToString(Len(bytes)) \o <<B.colon>> \o bytes

RECURSIVE EncodeValue(_)
RECURSIVE EncodeItems(_)
RECURSIVE EncodePairs(_, _)

\* The `for item in items` loop of encode_list.
EncodeItems(items) ==
    IF items = <<>> THEN <<>>
    ELSE EncodeValue(Head(items)) \o EncodeItems(Tail(items))

\* The `for (key, value) in map` loop of encode_dict.
EncodePairs(m, keys) ==
    IF keys = <<>> THEN <<>>
    ELSE EncodeByteString(Head(keys)) \o EncodeValue(MapGet(m, Head(keys)))
         \o EncodePairs(m, Tail(keys))

\* encode_list
EncodeList(items) == <<B.l>> \o EncodeItems(items) \o <<B.e>>

\* encode_dict
EncodeDict(m) ==
    <<B.d>> \o EncodePairs(m, SortedKeys({pair[1] : pair \in m})) \o <<B.e>>

\* encode_value
EncodeValue(value) ==
    CASE value.t = "int" -> EncodeInteger(value.n)
      [] value.t = "bytes" -> EncodeByteString(value.b)
      [] value.t = "list" -> EncodeList(value.items)
      [] value.t = "dict" -> EncodeDict(value.m)

\* encode
Encode(value) == EncodeValue(value)

-----------------------------------------------------------------------------
(* ser.rs: the typed encoder.  A typed value is what a Serialize impl      *)
(* presents to the Serializer: its kind k (the Serializer method it calls) *)
(* and the payload, every kind carrying all the payload fields: flag (a    *)
(* bool), n (an integer), w (a u64, as a word), b (the bytes of a str,     *)
(* char or bytes), sub (the                                                *)
(* value inside a Some or newtype, the elements of a sequence) and pairs   *)
(* (the <<key, value>> entries of a map or record, in visiting order).  A  *)
(* result is [st, out, err]: out is Serializer.output when the call ends.  *)

TV(kind) == [k |-> kind, flag |-> FALSE, n |-> 0, w |-> <<>>, b |-> <<>>,
             sub |-> <<>>, pairs |-> <<>>]
BoolV(f) == [TV("bool") EXCEPT !.flag = f]
IntKindV(kind, n) == [TV(kind) EXCEPT !.n = n]
IntV(n) == IntKindV("i64", n)
U64V(w) == [TV("u64") EXCEPT !.w = w]
StrV(b) == [TV("str") EXCEPT !.b = b]
BytesV(b) == [TV("bytes") EXCEPT !.b = b]
NoneV == TV("none")
SomeV(value) == [TV("some") EXCEPT !.sub = <<value>>]
SeqV(items) == [TV("seq") EXCEPT !.sub = items]
MapV(pairs) == [TV("map") EXCEPT !.pairs = pairs]
StructV(pairs) == [TV("struct") EXCEPT !.pairs = pairs]

None == [some |-> FALSE, v |-> <<>>]
Some(x) == [some |-> TRUE, v |-> x]

SerOk(out) == [st |-> "ok", out |-> out, err |-> <<>>]
SerErr(e, out) == [st |-> "err", out |-> out, err |-> e]

NoFloats == Message("bencode does not support floats")
NoEnums == Message("bencode does not support enums")
ValueBeforeKey == Message("serialize_value called before serialize_key")

IntKinds == {"i8", "i16", "i32", "i64", "u8", "u16", "u32", "u64"}
FloatKinds == {"f32", "f64"}
VariantKinds == {"unit_variant", "newtype_variant", "tuple_variant", "struct_variant"}

\* A 64-bit machine integer is a word of four 16-bit limbs, the least
\* significant first.  The word of a model integer n (all lie within i32):
\* its two's complement, sign-extended to 64 bits.
WordOf(n) ==
    <<n % 65536, (n \div 65536) % 65536,
      IF n < 0 THEN 65535 ELSE 0, IF n < 0 THEN 65535 ELSE 0>>

\* Two's complement negation (wrapping): every bit flipped, plus one.
WordNegate(w) ==
    LET s1 == (65535 - w[1]) + 1
        s2 == (65535 - w[2]) + (s1 \div 65536)
        s3 == (65535 - w[3]) + (s2 \div 65536)
        s4 == (65535 - w[4]) + (s3 \div 65536)
    IN  <<s1 % 65536, s2 % 65536, s3 % 65536, s4 % 65536>>

\* The word read as unsigned, divided by ten: quotient word and remainder.
WordDivTen(w) ==
    LET t4 == w[4]
        t3 == (t4 % 10) * 65536 + w[3]
        t2 == (t3 % 10) * 65536 + w[2]
        t1 == (t2 % 10) * 65536 + w[1]
    IN  [q |-> <<t1 \div 10, t2 \div 10, t3 \div 10, t4 \div 10>>, r |-> t1 % 10]

\* The decimal digits of the word read as unsigned, as bytes.
RECURSIVE WordDigits(_)
WordDigits(w) ==
    LET d == WordDivTen(w)
    IN  IF d.q = <<0, 0, 0, 0>> THEN <<B.zero + d.r>>
        ELSE Append(WordDigits(d.q), B.zero + d.r)

\* i64::to_string on a word: the top bit is the sign.
WordToString(w) ==
    IF w[4] >= 32768 THEN <<B.minus>> \o WordDigits(WordNegate(w)) ELSE WordDigits(w)

\* `v as i64` in serialize_i8 .. serialize_u64: sign extension (i8, i16,
\* i32) and zero extension (u8, u16, u32) keep the value; a u64 keeps its 64
\* bits, which are from then on read as signed.
CastToI64(value) == IF value.k = "u64" THEN value.w ELSE WordOf(value.n)

\* serialize_i64, v being the i64 as a word.
SerializeI64(out, v) == SerOk(out \o <<B.i>> \o WordToString(v) \o <<B.e>>)

\* serialize_bytes (serialize_str and serialize_char forward to it)
SerializeBytes(out, v) == SerOk(out \o UsizeToString(Len(v)) \o <<B.colon>> \o v)

\* SortedMapSerializer::new
NewMap == [entries |-> <<>>, current_key |-> None]

\* Vec::sort_by(|a, b| a.0.cmp(&b.0)): a stable sort of the staged pairs by
\* their first component.
InsertEntry(sorted, x) ==
    LET after == {k \in 0..Len(sorted) :
                    \A j \in (k + 1)..Len(sorted) : BytesLess(x[1], sorted[j][1])}
        at == CHOOSE k \in after : \A o \in after : k <= o
    IN  SubSeq(sorted, 1, at) \o <<x>> \o SubSeq(sorted, at + 1, Len(sorted))

RECURSIVE SortEntries(_)
SortEntries(es) ==
    IF es = <<>> THEN <<>>
    ELSE InsertEntry(SortEntries(SubSeq(es, 1, Len(es) - 1)), es[Len(es)])

\* The `for (key, value) in entries` loop of end().
RECURSIVE FlushEntries(_)
FlushEntries(es) ==
    IF es = <<>> THEN <<>>
    ELSE es[1][1] \o es[1][2] \o FlushEntries(Tail(es))

\* SerializeMap::end for SortedMapSerializer (SerializeStruct::end forwards).
MapEnd(out, ms) ==
    SerOk(out \o <<B.d>> \o FlushEntries(SortEntries(ms.entries)) \o <<B.e>>)

RECURSIVE Serialize(_, _)
RECURSIVE SerializeElements(_, _)
RECURSIVE SerializeEntries(_, _, _)
RECURSIVE MapSerializeKey(_, _)
RECURSIVE MapSerializeValue(_, _)

\* SerializeMap::serialize_key: [st, err, ms].
MapSerializeKey(ms, key) ==
    LET r == Serialize(key, <<>>)
    IN  IF r.st # "ok" THEN [st |-> "err", err |-> r.err, ms |-> ms]
        ELSE [st |-> "ok", err |-> <<>>,
              ms |-> [ms EXCEPT !.current_key = Some(r.out)]]

\* A faulty serialize_value: the pair replaces a staged pair with the same
\* key bytes (a map in place of the Vec).
MapSerializeValueReplacing(ms, value) ==
    LET r == Serialize(value, <<>>)
        taken == [ms EXCEPT !.current_key = None]
        others == SelectSeq(ms.entries, LAMBDA e : e[1] # ms.current_key.v)
    IN  IF ~ms.current_key.some
        THEN [st |-> "err", err |-> ValueBeforeKey, ms |-> ms]
        ELSE IF r.st # "ok" THEN [st |-> "err", err |-> r.err, ms |-> taken]
        ELSE [st |-> "ok", err |-> <<>>,
              ms |-> [taken EXCEPT !.entries = Append(others, <<ms.current_key.v, r.out>>)]]

\* SerializeMap::serialize_value: [st, err, ms].  current_key.take() empties
\* the slot before the value is serialized.
MapSerializeValue(ms, value) ==
    LET r == Serialize(value, <<>>)
        taken == [ms EXCEPT !.current_key = None]
    IN  IF ~ms.current_key.some
        THEN [st |-> "err", err |-> ValueBeforeKey, ms |-> ms]
        ELSE IF r.st # "ok" THEN [st |-> "err", err |-> r.err, ms |-> taken]
        ELSE [st |-> "ok", err |-> <<>>,
              ms |-> [taken EXCEPT !.entries = Append(@, <<ms.current_key.v, r.out>>)]]

\* SerializeStruct::serialize_field: serialize_key(key)?, serialize_value.
MapSerializeField(ms, key, value) ==
    LET k == MapSerializeKey(ms, StrV(key))
    IN  IF k.st # "ok" THEN k ELSE MapSerializeValue(k.ms, value)

\* SerializeSeq::serialize_element over the elements, in order.
SerializeElements(items, out) ==
    IF items = <<>> THEN SerOk(out)
    ELSE LET r == Serialize(Head(items), out)
         IN  IF r.st # "ok" THEN r ELSE SerializeElements(Tail(items), r.out)

\* What a map's or a record's Serialize impl does between serialize_map /
\* serialize_struct and end(): one key visit and one value visit per entry,
\* in the entries' iteration (declaration) order.
SerializeEntries(pairs, out, ms) ==
    IF pairs = <<>> THEN MapEnd(out, ms)
    ELSE LET k == MapSerializeKey(ms, Head(pairs)[1])
             v == MapSerializeValue(k.ms, Head(pairs)[2])
         IN  IF k.st # "ok" THEN SerErr(k.err, out)
             ELSE IF v.st # "ok" THEN SerErr(v.err, out)
             ELSE SerializeEntries(Tail(pairs), out, v.ms)

\* value.serialize(&mut serializer): the Serializer method the value's kind
\* selects, applied to the output so far.
Serialize(value, out) ==
    CASE value.k = "bool" -> SerializeI64(out, WordOf(IF value.flag THEN 1 ELSE 0))
      [] value.k \in IntKinds -> SerializeI64(out, CastToI64(value))
      [] value.k \in FloatKinds -> SerErr(NoFloats, out)
      [] value.k \in {"char", "str", "bytes"} -> SerializeBytes(out, value.b)
      [] value.k \in {"none", "unit", "unit_struct"} -> SerOk(out)
      [] value.k \in {"some", "newtype_struct"} -> Serialize(value.sub[1], out)
      [] value.k \in VariantKinds -> SerErr(NoEnums, out)
      [] value.k \in {"seq", "tuple", "tuple_struct"} ->
            LET r == SerializeElements(value.sub, out \o <<B.l>>)
            IN  IF r.st # "ok" THEN r ELSE SerOk(r.out \o <<B.e>>)
      [] value.k \in {"map", "struct"} -> SerializeEntries(value.pairs, out, NewMap)

\* to_bytes: [st, out, err], out being the bytes returned on success.
ToBytes(value) == Serialize(value, <<>>)

-----------------------------------------------------------------------------
(* de.rs: the typed decoder.  A target type is [k |-> kind, ...]; the      *)
(* visitors are those of serde's impls for the standard types and of       *)
(* #[derive(Deserialize)] for records.                                     *)

\* Deserializer::parse_integer
ParseInteger(in, pos) ==
    LET open == Expect(in, pos, B.i)
        scan == ScanUntil(in, open.pos, B.e)
        bytes == SubSeq(in, open.pos + 1, scan.pos)
        num == ParseI64(bytes)
    IN  IF open.st # "ok" THEN open
        ELSE IF scan.st # "ok" THEN scan
        ELSE IF ~IsUtf8(bytes) \/ ~num.ok THEN Err(InvalidInteger, scan.pos)
        ELSE Ok(num.n, Expect(in, scan.pos, B.e).pos)

\* Deserializer::parse_byte_string
ParseByteString(in, pos) ==
    LET scan == ScanUntil(in, pos, B.colon)
        lenBytes == SubSeq(in, pos + 1, scan.pos)
        len == ParseUsize(lenBytes)
        colon == Expect(in, scan.pos, B.colon)
        how == TakeOutcome(Len(in), colon.pos, len)
    IN  IF scan.st # "ok" THEN scan
        ELSE IF ~IsUtf8(lenBytes) \/ ~len.ok THEN Err(InvalidCharacter(0), scan.pos)
        ELSE IF how = "panic" THEN Panic(colon.pos)
        ELSE IF how = "eof" THEN Err(UnexpectedEof, colon.pos)
        ELSE Ok(SubSeq(in, colon.pos + 1, colon.pos + DigitsValue(len.ds)),
                colon.pos + DigitsValue(len.ds))

\* `n as i8`, `as i16`, `as u8`, `as u16`: the low bits of n, read as signed
\* or unsigned.
WrapBits(n, modulus, signed) ==
    LET low == n % modulus
    IN  IF signed /\ low >= modulus \div 2 THEN low - modulus ELSE low

NarrowKinds == {"i8", "i16", "i32", "u8", "u16", "u32", "u64"}

\* `n as i8` .. `n as u64` on the i64 n: the low bits of its word.  An i32
\* result is those 32 bits read as signed; a u32 or u64 result can exceed
\* the model's integers and stays a word (read as unsigned).
NarrowCast(kind, n) ==
    CASE kind = "i8" -> WrapBits(n, 256, TRUE)
      [] kind = "u8" -> WrapBits(n, 256, FALSE)
      [] kind = "i16" -> WrapBits(n, 65536, TRUE)
      [] kind = "u16" -> WrapBits(n, 65536, FALSE)
      [] kind = "i32" -> IF WordOf(n)[2] >= 32768
                         THEN (WordOf(n)[2] - 65536) * 65536 + WordOf(n)[1]
                         ELSE WordOf(n)[2] * 65536 + WordOf(n)[1]
      [] kind = "u32" -> <<WordOf(n)[1], WordOf(n)[2], 0, 0>>
      [] kind = "u64" -> WordOf(n)

MissingField(name) == Message(<<"missing field", name>>)
DuplicateField(name) == Message(<<"duplicate field", name>>)
SingleChar == Message("expected single char")
\* de::Error::invalid_length(seen, &expected) through Error::custom: "invalid
\* length <seen>, expected a tuple of size <size>" for a tuple, "... expected
\* tuple struct <name> with <size> elements" for a derived tuple struct.
InvalidLength(seen, kind, size) == Message(<<"invalid length", seen, kind, size>>)

\* A target type: its kind k, the inner type of an Option, newtype or Vec
\* (e, of one element), the element types of a tuple or tuple struct (e, in
\* order) and the fields of a record ([name, ty] each).
Ty(kind) == [k |-> kind, e |-> <<>>, fields |-> <<>>]
\* serde's IgnoredAny, and the derived field identifier (__Field).
Ignored == Ty("ignored")
Identifier == Ty("identifier")

\* The position of the field called name in a record's field list, 0 when
\* the record has no such field (the derived __Field::__ignore).
FieldIndex(fields, name) ==
    IF \E f \in 1..Len(fields) : fields[f].name = name
    THEN CHOOSE f \in 1..Len(fields) : fields[f].name = name
    ELSE 0

\* What the derived visitor does once next_key returns None: an absent
\* Option field is None, any other absent field is the missing-field error
\* (the first one in declaration order).
FinishStruct(fields, slots, pos) ==
    LET missing == {f \in 1..Len(fields) : ~slots[f].some /\ fields[f].ty.k # "option"}
        first == CHOOSE f \in missing : \A o \in missing : f <= o
    IN  IF missing # {} THEN Err(MissingField(fields[first].name), pos)
        ELSE Ok([f \in 1..Len(fields) |->
                    IF slots[f].some THEN slots[f].v ELSE None], pos)

\* The element of a one-element set.  The({body : x \in {e}}) is
\* `LET x == e IN body` with e evaluated once, before body.
The(S) == CHOOSE x \in S : TRUE

\* Result::map(Some)
MapSome(r) == IF r.st = "ok" THEN Ok(Some(r.val), r.pos) ELSE r

RECURSIVE Deserialize(_, _, _)
RECURSIVE SeqLoop(_, _, _, _)
RECURSIVE StructLoop(_, _, _, _)
RECURSIVE IgnoredMapLoop(_, _)
RECURSIVE TupleLoop(_, _, _, _)

\* SeqAccess::next_element_seed: Ok(None) at the terminator, else
\* Ok(Some(element)).
NextElementSeed(elem, in, pos) ==
    IF Peek(in, pos).st # "ok" THEN Peek(in, pos)
    ELSE IF Peek(in, pos).val = B.e THEN Ok(None, pos)
    ELSE MapSome(Deserialize(elem, in, pos))

\* MapAccess::next_key_seed: the same test, then the key.
NextKeySeed(key, in, pos) == NextElementSeed(key, in, pos)

\* MapAccess::next_value_seed
NextValueSeed(ty, in, pos) == Deserialize(ty, in, pos)

\* Vec<T>'s visitor (and IgnoredAny's): next_element until None.  A step
\* that returns an element without moving the cursor repeats forever.
SeqLoop(elem, in, pos, items) ==
    The({ IF r.st # "ok" THEN r
          ELSE IF ~r.val.some THEN Ok(items, pos)
          ELSE IF r.pos = pos THEN Diverge(pos)
          ELSE SeqLoop(elem, in, r.pos, Append(items, r.val.v))
        : r \in {NextElementSeed(elem, in, pos)} })

\* The visitor of a tuple (serde's impl for (T0, .., Tn)) or of a derived
\* tuple struct: one next_element per declared element, invalid_length when
\* the list ends early; after the last element it returns without asking
\* for the end of the list.
TupleLoop(ty, in, pos, items) ==
    IF Len(items) = Len(ty.e) THEN Ok(items, pos)
    ELSE The({ IF r.st # "ok" THEN r
               ELSE IF ~r.val.some
               THEN Err(InvalidLength(Len(items), ty.k, Len(ty.e)), pos)
               ELSE TupleLoop(ty, in, r.pos, Append(items, r.val.v))
             : r \in {NextElementSeed(ty.e[Len(items) + 1], in, pos)} })

\* The slot a value fills: slot f, or none for the value of an unknown key.
StoreSlot(slots, f, v) ==
    IF v.st # "ok" THEN v
    ELSE IF f = 0 THEN Ok(slots, v.pos)
    ELSE Ok([slots EXCEPT ![f] = Some(v.val)], v.pos)

\* One turn of the derived record visitor's loop after a key was read: the
\* slot the key names, a duplicate-field error, or the value skipped as
\* IgnoredAny.  [st, val (the slots), err, pos].
StructEntry(fields, in, pos, slots, name) ==
    The({ IF f # 0 /\ slots[f].some THEN Err(DuplicateField(name), pos)
          ELSE StoreSlot(slots, f,
                   NextValueSeed(IF f = 0 THEN Ignored ELSE fields[f].ty, in, pos))
        : f \in {FieldIndex(fields, name)} })

\* The loop's turn for the entry just read: its error, or the next turn.
StructNext(fields, in, e) ==
    IF e.st # "ok" THEN e ELSE StructLoop(fields, in, e.pos, e.val)

\* The derived record visitor: next_key, then the entry, until None.
StructLoop(fields, in, pos, slots) ==
    The({ IF k.st # "ok" THEN k
          ELSE IF ~k.val.some THEN FinishStruct(fields, slots, pos)
          ELSE StructNext(fields, in, StructEntry(fields, in, k.pos, slots, k.val.v))
        : k \in {NextKeySeed(Identifier, in, pos)} })

\* The loop's turn for the value just skipped: its error, or the next turn.
IgnoredMapNext(in, v) ==
    IF v.st # "ok" THEN v ELSE IgnoredMapLoop(in, v.pos)

\* IgnoredAny's visit_map: next_entry::<IgnoredAny, IgnoredAny> until None.
IgnoredMapLoop(in, pos) ==
    The({ IF k.st # "ok" THEN k
          ELSE IF ~k.val.some THEN Ok("ignored", pos)
          ELSE IgnoredMapNext(in, NextValueSeed(Ignored, in, k.pos))
        : k \in {NextKeySeed(Ignored, in, pos)} })

\* The closing half of deserialize_seq / deserialize_map: the visitor's
\* result, then expect(b'e').
CloseContainer(in, body) ==
    IF body.st # "ok" THEN body
    ELSE IF Expect(in, body.pos, B.e).st # "ok" THEN Expect(in, body.pos, B.e)
    ELSE Ok(body.val, body.pos + 1)

\* deserialize_seq with Vec<T>'s visitor.
DeserializeSeq(elem, in, pos) ==
    IF Expect(in, pos, B.l).st # "ok" THEN Expect(in, pos, B.l)
    ELSE CloseContainer(in, SeqLoop(elem, in, pos + 1, <<>>))

\* deserialize_tuple and deserialize_tuple_struct (both forward to
\* deserialize_seq, the length unused) with the tuple's visitor.
DeserializeTuple(ty, in, pos) ==
    IF Expect(in, pos, B.l).st # "ok" THEN Expect(in, pos, B.l)
    ELSE CloseContainer(in, TupleLoop(ty, in, pos + 1, <<>>))

\* deserialize_struct (which forwards to deserialize_map) with the derived
\* record visitor.
DeserializeStruct(fields, in, pos) ==
    IF Expect(in, pos, B.d).st # "ok" THEN Expect(in, pos, B.d)
    ELSE CloseContainer(in, StructLoop(fields, in, pos + 1,
                                       [f \in 1..Len(fields) |-> None]))

\* deserialize_map with IgnoredAny's visitor.
DeserializeIgnoredMap(in, pos) ==
    IF Expect(in, pos, B.d).st # "ok" THEN Expect(in, pos, B.d)
    ELSE CloseContainer(in, IgnoredMapLoop(in, pos + 1))

\* A faulty deserialize_f32 / deserialize_f64: the float is read from an
\* integer numeral, an approximation in place of the error.
DeserializeFloatFromInteger(in, pos) == ParseInteger(in, pos)

\* deserialize_f32, deserialize_f64: the error, the cursor untouched.
DeserializeFloat(in, pos) == Err(NoFloats, pos)

\* deserialize_enum: the error, the cursor untouched.
DeserializeEnum(in, pos) == Err(NoEnums, pos)

\* visit_bool(n != 0) on parse_integer's result.
VisitBool(int) == IF int.st = "ok" THEN Ok(int.val # 0, int.pos) ELSE int

\* visit_i8(n as i8) and its like on parse_integer's result.
VisitNarrow(kind, int) ==
    IF int.st = "ok" THEN Ok(NarrowCast(kind, int.val), int.pos) ELSE int

\* deserialize_char on parse_byte_string's result.
VisitChar(str) ==
    IF str.st # "ok" THEN str
    ELSE IF ~IsUtf8(str.val) THEN Err(InvalidCharacter(0), str.pos)
    ELSE IF str.val = <<>> THEN Err(UnexpectedEof, str.pos)
    ELSE IF Utf8Chars(str.val) > 1 THEN Err(SingleChar, str.pos)
    ELSE str

\* deserialize_str on parse_byte_string's result.
VisitStr(str) ==
    IF str.st # "ok" THEN str
    ELSE IF ~IsUtf8(str.val) THEN Err(InvalidCharacter(0), str.pos)
    ELSE str

\* IgnoredAny's visitor on what deserialize_any handed it.
VisitIgnored(r) == IF r.st = "ok" THEN Ok("ignored", r.pos) ELSE r

\* deserialize_any with IgnoredAny's visitor.
DeserializeAny(in, pos) ==
    IF Peek(in, pos).st # "ok" THEN Peek(in, pos)
    ELSE The({ IF b = B.i THEN VisitIgnored(ParseInteger(in, pos))
               ELSE IF b = B.l THEN VisitIgnored(DeserializeSeq(Ignored, in, pos))
               ELSE IF b = B.d THEN DeserializeIgnoredMap(in, pos)
               ELSE IF IsAsciiDigit(b) THEN VisitIgnored(ParseByteString(in, pos))
               ELSE Err(InvalidCharacter(b), pos)
             : b \in {Peek(in, pos).val} })

\* T::deserialize(&mut deserializer): the Deserializer method the target
\* type selects, with that type's visitor.
Deserialize(ty, in, pos) ==
    CASE ty.k = "bool" -> VisitBool(ParseInteger(in, pos))
      [] ty.k = "i64" -> ParseInteger(in, pos)
      [] ty.k \in NarrowKinds -> VisitNarrow(ty.k, ParseInteger(in, pos))
      [] ty.k \in FloatKinds -> DeserializeFloat(in, pos)
      [] ty.k = "enum" -> DeserializeEnum(in, pos)
      [] ty.k = "char" -> VisitChar(ParseByteString(in, pos))
      [] ty.k \in {"str", "string", "identifier"} -> VisitStr(ParseByteString(in, pos))
      [] ty.k \in {"bytes", "byte_buf"} -> ParseByteString(in, pos)
      [] ty.k = "option" -> MapSome(Deserialize(ty.e[1], in, pos))
      [] ty.k \in {"unit", "unit_struct"} -> Ok(Unit, pos)
      [] ty.k = "newtype_struct" -> Deserialize(ty.e[1], in, pos)
      [] ty.k = "seq" -> DeserializeSeq(ty.e[1], in, pos)
      [] ty.k \in {"tuple", "tuple_struct"} -> DeserializeTuple(ty, in, pos)
      [] ty.k = "struct" -> DeserializeStruct(ty.fields, in, pos)
      [] ty.k = "ignored" -> DeserializeAny(in, pos)

\* from_bytes::<T>: a new Deserializer at position 0, then T::deserialize.
FromBytes(ty, in) == Deserialize(ty, in, 0)

-----------------------------------------------------------------------------
(* The inputs of the model.                                                *)

\* The bytes the enumerated inputs are made of: i l d e 0 1 :
Alphabet == {B.i, B.l, B.d, B.e, B.zero, B.zero + 1, B.colon}

\* Every byte string over Alphabet of at most MaxLen bytes.
ShortInputs == UNION {[1..n -> Alphabet] : n \in 0..MaxLen}

\* Longer inputs: the documented examples, the numerals at the edges of the
\* machine integers, and dictionaries for the typed records below.
LongInputs == {
        <<105, 48, 51, 101>>,  \* i03e
        <<105, 45, 48, 101>>,  \* i-0e
        <<105, 45, 48, 51, 101>>,  \* i-03e
        <<105, 43, 51, 101>>,  \* i+3e
        <<105, 52, 50, 101>>,  \* i42e
        <<105, 45, 51, 101>>,  \* i-3e
        <<105, 45, 101>>,  \* i-e
        <<105, 49, 45, 101>>,  \* i1-e
        <<105, 48, 48, 101>>,  \* i00e
        <<105, 57, 50, 50, 51, 51, 55, 50, 48, 51, 54, 56, 53, 52, 55, 55, 53, 56, 48, 56, 101>>,  \* i9223372036854775808e
        <<105, 45, 57, 50, 50, 51, 51, 55, 50, 48, 51, 54, 56, 53, 52, 55, 55, 53, 56, 48, 57, 101>>,  \* i-9223372036854775809e
        <<105, 255, 101>>,  \* i\xffe
        <<52, 58, 115, 112, 97, 109>>,  \* 4:spam
        <<51, 58, 0, 1, 2>>,  \* 3:\0\1\2
        <<43, 49, 58, 97>>,  \* +1:a
        <<45, 49, 58, 97>>,  \* -1:a
        <<49, 58, 255>>,  \* 1:\xff
        <<50, 58, 97>>,  \* 2:a
        <<48, 49, 58, 97>>,  \* 01:a
        <<49, 97, 58, 98>>,  \* 1a:b
        <<49, 56, 52, 52, 54, 55, 52, 52, 48, 55, 51, 55, 48, 57, 53, 53, 49, 54, 49, 53, 58>>,  \* 18446744073709551615:
        <<49, 56, 52, 52, 54, 55, 52, 52, 48, 55, 51, 55, 48, 57, 53, 53, 49, 54, 49, 54, 58>>,  \* 18446744073709551616:
        <<49, 56, 52, 52, 54, 55, 52, 52, 48, 55, 51, 55, 48, 57, 53, 53, 49, 53, 57, 52, 58>>,  \* 18446744073709551594:
        <<108, 108, 105, 49, 101, 101, 101>>,  \* lli1eee
        <<108, 52, 58, 115, 112, 97, 109, 105, 52, 50, 101, 101>>,  \* l4:spami42ee
        <<108, 105, 49, 101>>,  \* li1e
        <<108, 105, 49, 101, 105, 48, 101, 101>>,  \* li1ei0ee
        <<108, 49, 58, 97, 101>>,  \* l1:ae
        <<100, 51, 58, 98, 98, 105, 49, 101, 51, 58, 97, 97, 105, 50, 101, 101>>,  \* d3:bbi1e3:aai2ee
        <<100, 51, 58, 97, 97, 105, 50, 101, 51, 58, 98, 98, 105, 49, 101, 101>>,  \* d3:aai2e3:bbi1ee
        <<100, 105, 49, 101, 105, 50, 101, 101>>,  \* di1ei2ee
        <<100, 49, 58, 97, 105, 49, 101, 49, 58, 97, 105, 50, 101, 101>>,  \* d1:ai1e1:ai2ee
        <<100, 49, 58, 97, 105, 49, 101, 101>>,  \* d1:ai1ee
        <<100, 49, 58, 97, 105, 49, 101, 49, 58, 98, 105, 48, 101, 101>>,  \* d1:ai1e1:bi0ee
        <<100, 49, 58, 98, 105, 48, 101, 49, 58, 97, 105, 49, 101, 101>>,  \* d1:bi0e1:ai1ee
        <<100, 49, 58, 98, 105, 48, 101, 101>>,  \* d1:bi0ee
        <<100, 49, 58, 97, 105, 49, 101, 49, 58, 122, 108, 101, 101>>,  \* d1:ai1e1:zlee
        <<100, 49, 58, 97, 105, 49, 101, 49, 58, 98, 101>>,  \* d1:ai1e1:be
        <<100, 49, 58, 122, 100, 48, 58, 108, 101, 101, 49, 58, 97, 105, 49, 101, 101>>,  \* d1:zd0:lee1:ai1ee
        <<100, 49, 58, 122, 105, 52, 50, 101, 49, 58, 97, 105, 49, 101, 101>>,  \* d1:zi42e1:ai1ee
        <<100, 49, 58, 122, 49, 58, 97, 49, 58, 97, 105, 49, 101, 101>>,  \* d1:z1:a1:ai1ee
        <<100, 49, 58, 122, 100, 49, 58, 97, 105, 49, 101, 101, 49, 58, 97, 105, 48, 101, 101>>,  \* d1:zd1:ai1ee1:ai0ee
        <<100, 49, 58, 122, 108, 100, 101, 101, 49, 58, 97, 105, 49, 101, 101>>,  \* d1:zldee1:ai1ee
        <<100, 49, 58, 122, 105, 52, 50, 101, 101>>,  \* d1:zi42ee
        <<100, 49, 58, 255, 105, 49, 101, 49, 58, 97, 105, 49, 101, 101>>,  \* d1:\xffi1e1:ai1ee
        <<105, 51, 48, 48, 101>>,  \* i300e
        <<105, 55, 48, 48, 48, 48, 101>>,  \* i70000e
        <<105, 45, 49, 50, 57, 101>>,  \* i-129e
        <<105, 49, 101, 105, 48, 101>>,  \* i1ei0e
        <<105, 49, 101, 58>>,  \* i1e:
        <<108, 105, 49, 101, 105, 50, 101, 105, 51, 101, 101>>,  \* li1ei2ei3ee
        <<108, 105, 49, 101, 49, 58, 97, 101>>,  \* li1e1:ae
        <<50, 58, 195, 169>>,  \* 2:\xc3\xa9 (U+00E9)
        <<51, 58, 97, 195, 169>>,  \* 3:a\xc3\xa9
        <<51, 58, 226, 130, 172>>,  \* 3:\xe2\x82\xac (U+20AC)
        <<52, 58, 240, 159, 152, 128>>,  \* 4:\xf0\x9f\x98\x80 (U+1F600)
        <<49, 58, 195>>,  \* 1:\xc3 (a lead byte alone)
        <<50, 58, 192, 128>>,  \* 2:\xc0\x80 (overlong)
        <<51, 58, 237, 160, 128>>,  \* 3:\xed\xa0\x80 (a surrogate)
        <<100, 50, 58, 195, 169, 105, 52, 50, 101, 49, 58, 97, 105, 49, 101, 101>>  \* d2:\xc3\xa9i42e1:ai1ee
    }

Inputs == ShortInputs \cup LongInputs

\* Byte strings named below: "a", "b", "aa".
KeyA == <<97>>
KeyB == <<98>>
KeyAA == <<97, 97>>

\* The legal Values a raw session encodes and decodes again.
ScalarValues == {IntegerValue(0), IntegerValue(42), IntegerValue(0 - 3),
                 ByteStringValue(<<>>), ByteStringValue(KeyA),
                 ByteStringValue(<<0, 255>>)}
ListValues == {ListValue(<<>>),
               ListValue(<<IntegerValue(1), ByteStringValue(KeyB)>>),
               ListValue(<<ListValue(<<IntegerValue(1)>>)>>),
               ListValue(<<ListValue(<<>>), IntegerValue(0 - 10)>>)}
DictValues == {DictValue({}),
               DictValue(MapInsert({}, KeyA, IntegerValue(1))),
               DictValue(MapInsert(MapInsert({}, KeyB, IntegerValue(2)),
                                   KeyAA, ListValue(<<>>))),
               ListValue(<<DictValue({})>>)}
Values == ScalarValues \cup ListValues \cup DictValues

NoSource == [t |-> "none", n |-> 0, b |-> <<>>, items |-> <<>>, m |-> {}]

\* What a buffer may hold after the encoding of a Value: nothing, or bytes
\* that are or are not bencode themselves (e, i1e, 0, \xff).
Trailers == {<<>>, <<B.e>>, <<B.i, B.zero + 1, B.e>>, <<B.zero>>, <<255>>}

\* The target types of the typed decode sessions.  Person is a record with
\* a required field "a" and an optional field "b".
I64 == Ty("i64")
SeqOf(elem) == [Ty("seq") EXCEPT !.e = <<elem>>]
OptionOf(elem) == [Ty("option") EXCEPT !.e = <<elem>>]
\* (T0, .., Tn), and struct Name(T0, .., Tn) with derived Deserialize.
TupleOf(kind, elems) == [Ty(kind) EXCEPT !.e = elems]
PersonFields == <<[name |-> KeyA, ty |-> I64], [name |-> KeyB, ty |-> OptionOf(I64)]>>
Person == [Ty("struct") EXCEPT !.fields = PersonFields]
Targets == {I64, Ty("i8"), Ty("i16"), Ty("i32"), Ty("u8"), Ty("u16"), Ty("u32"),
            Ty("u64"), Ty("bool"), Ty("char"), Ty("str"), Ty("bytes"),
            Ty("f32"), Ty("f64"), Ty("enum"), Ty("unit"),
            OptionOf(I64), SeqOf(I64), SeqOf(Ty("unit")), SeqOf(SeqOf(I64)),
            SeqOf(SeqOf(Ty("unit"))),
            TupleOf("tuple", <<I64, I64>>), TupleOf("tuple", <<I64, Ty("bytes")>>),
            TupleOf("tuple_struct", <<I64, I64>>),
            Person, Ignored}

\* The typed values of the encode sessions.
KeyValues == {StrV(KeyA), StrV(KeyB), StrV(KeyAA)}
FieldValues == {IntV(1), IntV(2), NoneV, TV("f64")}
UnsupportedValues == {TV("f32"), TV("f64"), TV("unit_variant"),
                      [TV("newtype_variant") EXCEPT !.sub = <<IntV(1)>>],
                      [TV("tuple_variant") EXCEPT !.sub = <<IntV(1)>>],
                      [TV("struct_variant") EXCEPT !.pairs = <<<<StrV(KeyA), IntV(1)>>>>]}
TopValues == UnsupportedValues \cup
             {IntV(42), IntV(0 - 3), IntKindV("u8", 7), BoolV(TRUE),
              IntKindV("i8", 0 - 128), IntKindV("u32", 70000),
              U64V(<<7, 0, 0, 0>>),                      \* 7
              U64V(<<65535, 65535, 65535, 32767>>),      \* 2^63 - 1
              U64V(<<0, 0, 0, 32768>>),                  \* 2^63
              U64V(<<65535, 65535, 65535, 65535>>),      \* 2^64 - 1
              StrV(KeyAA), NoneV, SomeV(IntV(0)), TV("unit"),
              SeqV(<<IntV(1), IntV(2)>>),
              SeqV(<<IntV(1), TV("f64")>>),
              SomeV(TV("unit_variant")),
              StructV(<<<<StrV(KeyB), IntV(1)>>, <<StrV(KeyAA), IntV(2)>>>>),
              MapV(<<<<StrV(KeyA), TV("struct_variant")>>>>),
              SeqV(<<IntV(1), MapV(<<<<StrV(KeyB), IntV(1)>>, <<StrV(KeyA), IntV(2)>>,
                                     <<StrV(KeyA), IntV(0)>>>>)>>)}

-----------------------------------------------------------------------------
(* The sessions.                                                           *)

\* Most elements a typed list session is handed without its cursor moving
\* (an element type that reads no byte), and most key and value visits made
\* on one open map.
MaxItems == 3
MaxVisits == 5

NoCall == [op |-> "new", st |-> "ok", val |-> Unit, err |-> <<>>, before |-> 0, n |-> 0]
Call(op, r, before, n) ==
    [op |-> op, st |-> r.st, val |-> r.val, err |-> r.err, before |-> before, n |-> n]
NoAcc == [items |-> <<>>, slots |-> <<>>, key |-> <<>>]

\* What a failed or finished call leaves: no further call is made on the
\* object after an error (errors are terminal for the decode or encode).
After(r) == IF r.st = "ok" THEN "ready" ELSE "failed"

\* A session with a raw Decoder, with a typed Deserializer for one target
\* type, or with a typed Serializer.
Init ==
    /\ \/ /\ mode = "raw"
          /\ source \in Values \cup {NoSource}
          /\ target = Ignored
          /\ phase = "new"
       \/ /\ mode = "de"
          /\ source = NoSource
          /\ target \in Targets
          /\ phase = "new"
       \/ /\ mode = "ser"
          /\ source = NoSource
          /\ target = Ignored
          /\ phase = "idle"
    /\ input = <<>>
    /\ position = 0
    /\ last = NoCall
    /\ acc = NoAcc
    /\ output = <<>>
    /\ entries = <<>>
    /\ current_key = None
    /\ visits = <<>>

SerUnchanged == UNCHANGED <<output, entries, current_key, visits>>
RawFrame == UNCHANGED <<mode, source, target, acc>> /\ SerUnchanged

(* ---- raw Decoder ---- *)

\* encode(&source), then Decoder::new on a buffer that starts with those
\* bytes.
RawEncode(tail) ==
    /\ mode = "raw" /\ phase = "new" /\ source # NoSource
    /\ input' = Encode(source) \o tail
    /\ position' = 0
    /\ phase' = "ready"
    /\ UNCHANGED last
    /\ RawFrame

\* Decoder::new on bytes of any origin.
RawNew(bytes) ==
    /\ mode = "raw" /\ phase = "new" /\ source = NoSource
    /\ input' = bytes
    /\ position' = 0
    /\ phase' = "ready"
    /\ UNCHANGED last
    /\ RawFrame

RawCall(op, r) ==
    /\ mode = "raw" /\ phase = "ready" /\ last.n < MaxCalls
    /\ position' = r.pos
    /\ last' = Call(op, r, position, last.n + 1)
    /\ phase' = After(r)
    /\ UNCHANGED input
    /\ RawFrame

RawDecodeValue == RawCall("decode_value", DecodeValue(input, position))
RawDecodeInteger == RawCall("decode_integer", DecodeInteger(input, position))
RawDecodeByteString == RawCall("decode_byte_string", DecodeByteString(input, position))

(* ---- typed Deserializer ---- *)

DeFrame == UNCHANGED <<mode, source, target>> /\ SerUnchanged

\* The call that ends the session's from_bytes, with what it returns.
DeReturn(op, r) ==
    /\ position' = r.pos
    /\ last' = Call(op, r, position, last.n + 1)
    /\ phase' = IF r.st = "ok" THEN "done" ELSE "failed"

\* A call within from_bytes that leaves the visitor running, in phase next.
DeContinue(op, r, next) ==
    /\ position' = r.pos
    /\ last' = Call(op, r, position, last.n + 1)
    /\ phase' = next

\* from_bytes::<T>(bytes) up to the first call a visitor makes: a list
\* target stops after deserialize_seq's expect(b'l'), a record target after
\* deserialize_map's expect(b'd'); every other target is decoded whole.
DeFromBytes(bytes) ==
    /\ mode = "de" /\ phase = "new"
    /\ input' = bytes
    /\ acc' = [NoAcc EXCEPT !.slots = IF target.k = "struct"
                                      THEN [f \in 1..Len(target.fields) |-> None]
                                      ELSE <<>>]
    /\ IF target.k = "seq"
       THEN LET r == Expect(bytes, 0, B.l)
            IN  IF r.st = "ok" THEN DeContinue("deserialize_seq", r, "seq")
                ELSE DeReturn("deserialize_seq", r)
       ELSE IF target.k = "struct"
       THEN LET r == Expect(bytes, 0, B.d)
            IN  IF r.st = "ok" THEN DeContinue("deserialize_map", r, "key")
                ELSE DeReturn("deserialize_map", r)
       ELSE DeReturn("from_bytes", FromBytes(target, bytes))
    /\ DeFrame

\* SeqAccess::next_element_seed, called by Vec<T>'s visitor: every call the
\* visitor makes, the one that finds the terminator included.  Only a call
\* that hands out an element without moving the cursor can be repeated
\* without end (the Vec grows, the input does not shrink); the session
\* follows MaxItems such calls.
DeNextElement ==
    /\ mode = "de" /\ phase = "seq"
    /\ \E r \in {NextElementSeed(target.e[1], input, position)} :
           IF r.st # "ok" THEN DeReturn("next_element", r) /\ UNCHANGED acc
           ELSE IF ~r.val.some
           THEN DeContinue("next_element", r, "seq_end") /\ UNCHANGED acc
           ELSE /\ r.pos = position => Len(acc.items) < MaxItems
                /\ DeContinue("next_element", r, "seq")
                /\ acc' = [acc EXCEPT !.items = Append(@, r.val.v)]
    /\ UNCHANGED input
    /\ DeFrame

\* The visitor has returned the Vec: deserialize_seq's expect(b'e').
DeSeqEnd ==
    /\ mode = "de" /\ phase = "seq_end"
    /\ DeReturn("from_bytes", CloseContainer(input, Ok(acc.items, position)))
    /\ UNCHANGED <<input, acc>>
    /\ DeFrame

\* MapAccess::next_key_seed, called by the derived record visitor.
DeNextKey ==
    /\ mode = "de" /\ phase = "key"
    /\ \E r \in {NextKeySeed(Identifier, input, position)} :
           IF r.st # "ok" THEN DeReturn("next_key", r) /\ UNCHANGED acc
           ELSE IF ~r.val.some
           THEN DeContinue("next_key", r, "map_end") /\ UNCHANGED acc
           ELSE /\ DeContinue("next_key", r, "value")
                /\ acc' = [acc EXCEPT !.key = r.val.v]
    /\ UNCHANGED input
    /\ DeFrame

\* MapAccess::next_value_seed for the key just read (or the visitor's
\* duplicate-field error in its place).
DeNextValue ==
    /\ mode = "de" /\ phase = "value"
    /\ \E r \in {StructEntry(target.fields, input, position, acc.slots, acc.key)} :
           IF r.st # "ok" THEN DeReturn("next_value", r) /\ UNCHANGED acc
           ELSE /\ DeContinue("next_value", [r EXCEPT !.val = Unit], "key")
                /\ acc' = [acc EXCEPT !.slots = r.val]
    /\ UNCHANGED input
    /\ DeFrame

\* The visitor has seen None: its missing-field check, then
\* deserialize_map's expect(b'e').
DeMapEnd ==
    /\ mode = "de" /\ phase = "map_end"
    /\ DeReturn("from_bytes",
                CloseContainer(input, FinishStruct(target.fields, acc.slots, position)))
    /\ UNCHANGED <<input, acc>>
    /\ DeFrame

(* ---- typed Serializer ---- *)

SerFrame == UNCHANGED <<mode, source, target, input, position, acc>>

Visit(op, arg, r) ==
    [op |-> op, arg |-> arg, st |-> r.st, err |-> r.err, pending |-> current_key.some]

MapState == [entries |-> entries, current_key |-> current_key]

\* value.serialize(&mut serializer) on the new Serializer (to_bytes).
SerValue(value) ==
    /\ mode = "ser" /\ phase = "idle"
    /\ LET r == Serialize(value, output)
       IN  /\ output' = r.out
           /\ last' = [op |-> "serialize", arg |-> value, st |-> r.st, err |-> r.err,
                       written |-> <<>>, before |-> output]
           /\ phase' = IF r.st = "ok" THEN "done" ELSE "failed"
    /\ UNCHANGED <<entries, current_key, visits>>
    /\ SerFrame

\* serialize_map / serialize_struct: SortedMapSerializer::new.
SerOpenMap ==
    /\ mode = "ser" /\ phase = "idle"
    /\ phase' = "map"
    /\ entries' = NewMap.entries
    /\ current_key' = NewMap.current_key
    /\ last' = [op |-> "serialize_map", arg |-> Unit, st |-> "ok", err |-> <<>>,
                written |-> <<>>, before |-> output]
    /\ UNCHANGED <<output, visits>>
    /\ SerFrame

\* One call on the open map, r being what it returns ([st, err, ms]).
SerMapCall(op, r) ==
    /\ entries' = r.ms.entries
    /\ current_key' = r.ms.current_key
    /\ last' = [op |-> op, arg |-> Unit, st |-> r.st, err |-> r.err,
                written |-> <<>>, before |-> output]
    /\ phase' = IF r.st = "ok" THEN "map" ELSE "failed"
    /\ UNCHANGED output
    /\ SerFrame

\* SerializeMap::serialize_key
SerKey(key) ==
    /\ mode = "ser" /\ phase = "map" /\ Len(visits) < MaxVisits
    /\ LET r == MapSerializeKey(MapState, key)
       IN  /\ SerMapCall("serialize_key", r)
           /\ visits' = Append(visits, Visit("key", key, r))

\* SerializeMap::serialize_value
SerVal(value) ==
    /\ mode = "ser" /\ phase = "map" /\ Len(visits) < MaxVisits
    /\ LET r == MapSerializeValue(MapState, value)
       IN  /\ SerMapCall("serialize_value", r)
           /\ visits' = Append(visits, Visit("value", value, r))

\* SerializeStruct::serialize_field: a key visit, then (if it succeeded) a
\* value visit.
SerField(name, value) ==
    /\ mode = "ser" /\ phase = "map" /\ Len(visits) + 1 < MaxVisits
    /\ LET k == MapSerializeKey(MapState, StrV(name))
           v == MapSerializeValue(k.ms, value)
           r == MapSerializeField(MapState, name, value)
           keyVisit == Visit("key", StrV(name), k)
           valueVisit == [op |-> "value", arg |-> value, st |-> v.st, err |-> v.err,
                          pending |-> k.ms.current_key.some]
       IN  /\ SerMapCall("serialize_field", r)
           /\ visits' = IF k.st = "ok" THEN visits \o <<keyVisit, valueVisit>>
                        ELSE Append(visits, keyVisit)

\* SerializeMap::end / SerializeStruct::end: the map serializer is consumed.
SerEnd ==
    /\ mode = "ser" /\ phase = "map"
    /\ LET r == MapEnd(output, MapState)
       IN  /\ output' = r.out
           /\ last' = [op |-> "end", arg |-> Unit, st |-> r.st, err |-> r.err,
                       written |-> SortEntries(entries), before |-> output]
    /\ phase' = "done"
    /\ entries' = <<>>
    /\ current_key' = None
    /\ UNCHANGED visits
    /\ SerFrame

-----------------------------------------------------------------------------

Next ==
    \/ \E tail \in Trailers : RawEncode(tail)
    \/ \E bytes \in Inputs : RawNew(bytes)
    \/ RawDecodeValue
    \/ RawDecodeInteger
    \/ RawDecodeByteString
    \/ \E bytes \in Inputs : DeFromBytes(bytes)
    \/ DeNextElement
    \/ DeSeqEnd
    \/ DeNextKey
    \/ DeNextValue
    \/ DeMapEnd
    \/ \E value \in TopValues : SerValue(value)
    \/ SerOpenMap
    \/ \E key \in KeyValues : SerKey(key)
    \/ \E value \in FieldValues : SerVal(value)
    \/ \E name \in {KeyA, KeyB, KeyAA}, value \in FieldValues : SerField(name, value)
    \/ SerEnd

Spec == Init /\ [][Next]_vars

-----------------------------------------------------------------------------
(* The properties.                                                         *)

\* C1: whatever the order of the key and value visits on one map or record
\* with distinct byte-string keys, the dictionary end() writes has its keys
\* in strictly ascending byte-lexicographic order of the raw key bytes.
C1_WrittenKeysAscendRaw ==
    (mode = "ser" /\ last.op = "end") =>
        LET w == last.written
            key == [j \in 1..Len(w) |-> DecodeByteString(w[j][1], 0).val]
        IN  (\A j, k \in 1..Len(w) : j # k => key[j] # key[k]) =>
                \A j \in 1..(Len(w) - 1) : BytesLess(key[j], key[j + 1])

\* C2: for every legal Value v, decode_value on encode(v) returns v and
\* leaves the position at the length of encode(v).
C2_RawRoundTrip ==
    (mode = "raw" /\ source # NoSource /\ input = Encode(source)
        /\ last.op = "decode_value" /\ last.n = 1) =>
        /\ last.st = "ok"
        /\ last.val = source
        /\ position = Len(input)

\* C3: every raw decode_value call and every call of a typed from_bytes
\* ends by returning a value or an Error; none ends in a panic.
C3_DecodeNeverPanics ==
    (last.op = "decode_value" \/ mode = "de") => last.st # "panic"

\* C4: raw decoding of a dictionary fails with InvalidDictKey when a key is
\* not a byte string, fails with UnsortedDictKeys when a key is not strictly
\* greater than the key before it (a duplicate included), and succeeds with
\* the dictionary of all pairs when the keys are strictly ascending.
C4_RawDictDecoding ==
    (mode = "raw" /\ last.op = "decode_value" /\ last.n = 1
        /\ input # <<>> /\ input[1] = B.d) =>
        /\ (Len(input) >= 2 /\ ~IsAsciiDigit(input[2]) /\ input[2] # B.e) =>
                (last.st = "err" /\ last.err = InvalidDictKey)
        /\ input \in {<<100, 51, 58, 98, 98, 105, 49, 101, 51, 58, 97, 97, 105, 50, 101, 101>>,
                      <<100, 49, 58, 98, 105, 48, 101, 49, 58, 97, 105, 49, 101, 101>>,
                      <<100, 49, 58, 97, 105, 49, 101, 49, 58, 97, 105, 50, 101, 101>>} =>
                (last.st = "err" /\ last.err = UnsortedDictKeys)
        /\ input = <<100, 51, 58, 97, 97, 105, 50, 101, 51, 58, 98, 98, 105, 49, 101, 101>> =>
                (last.st = "ok" /\ last.val =
                    DictValue({<<KeyAA, IntegerValue(2)>>, <<<<98, 98>>, IntegerValue(1)>>}))
        /\ (source # NoSource /\ source.t = "dict") =>
                (last.st = "ok" /\ last.val = source)

\* C5: every decode call terminates: no call repeats a step forever, a
\* list-element or key step that returns an item has moved the cursor
\* forward, and so has every successful scalar, value or whole-value read.
C5_StepsAdvanceCursor ==
    /\ mode \in {"raw", "de"} => last.st # "diverge"
    /\ (mode = "de" /\ last.op \in {"next_element", "next_key"} /\ last.st = "ok") =>
            (last.val.some => position > last.before)
    /\ (last.op \in {"decode_value", "decode_integer", "decode_byte_string", "next_value"}
            /\ last.st = "ok") => position > last.before

\* C6: on a map serializer a value visit with no pending key is an error, a
\* key visit while another key is pending is an error, and every key whose
\* visit succeeded is a key of an entry end() writes.
C6_KeyValuePairing ==
    mode = "ser" =>
        \A i \in 1..Len(visits) :
            /\ (visits[i].op = "value" /\ ~visits[i].pending) => visits[i].st = "err"
            /\ (visits[i].op = "key" /\ visits[i].pending) => visits[i].st = "err"
            /\ (visits[i].op = "key" /\ visits[i].st = "ok" /\ last.op = "end") =>
                    \E j \in 1..Len(last.written) :
                        last.written[j][1] = SerializeBytes(<<>>, visits[i].arg.b).out

\* C7: a record decodes with its optional field absent when the dictionary
\* has no such key; and a record (a: i64, b: Option<i64>) encodes to a
\* dictionary that omits the key "b" when b is absent, and that decodes back
\* to the same record.
C7_OptionalFieldRoundTrip ==
    /\ (mode = "de" /\ target.k = "struct" /\ last.op = "from_bytes"
            /\ acc.slots[1].some /\ ~acc.slots[2].some) =>
            (last.st = "ok" /\ last.val[1] = acc.slots[1].v /\ ~last.val[2].some)
    /\ (mode = "ser" /\ last.op = "end" /\ Len(visits) = 4
            /\ visits[1].op = "key" /\ visits[1].arg = StrV(KeyA)
            /\ visits[2].op = "value" /\ visits[2].arg.k = "i64"
            /\ visits[3].op = "key" /\ visits[3].arg = StrV(KeyB)
            /\ visits[4].op = "value" /\ visits[4].arg.k \in {"none", "i64"}) =>
            LET back == FromBytes(Person, output)
                absent == visits[4].arg.k = "none"
            IN  /\ absent => \A j \in 1..Len(last.written) :
                                last.written[j][1] # SerializeBytes(<<>>, KeyB).out
                /\ back.st = "ok"
                /\ back.val[1] = visits[2].arg.n
                /\ back.val[2].some = ~absent
                /\ ~absent => back.val[2].v = visits[4].arg.n

\* C8: on every input the typed decoder's parse_integer and the raw
\* decoder's decode_integer both succeed, with the same number and the same
\* final position, or both fail; and so do parse_byte_string and
\* decode_byte_string, with the same bytes.
C8_SameScalarValidation ==
    (mode = "de" /\ last.op = "from_bytes" /\ target.k \in {"i64", "bytes"}) =>
        LET raw == IF target.k = "i64" THEN DecodeInteger(input, 0)
                   ELSE DecodeByteString(input, 0)
        IN  /\ (last.st = "ok") = (raw.st = "ok")
            /\ last.st = "ok" => (last.val = raw.val /\ position = raw.pos)

\* C9: decode_integer on 'i' text 'e' returns the number when text is
\* ['-'] digit+ with no leading zero (the literal 0 apart), not -0 and
\* within i64, and fails with InvalidInteger for every other text.
C9_IntegerGrammar ==
    (mode = "raw" /\ last.op = "decode_integer" /\ last.n = 1
        /\ input # <<>> /\ input[1] = B.i /\ \E j \in 2..Len(input) : input[j] = B.e) =>
        LET close == CHOOSE j \in 2..Len(input) :
                        input[j] = B.e /\ \A k \in 2..(j - 1) : input[k] # B.e
            text == SubSeq(input, 2, close - 1)
            neg == text # <<>> /\ text[1] = B.minus
            ds == IF neg THEN Tail(text) ELSE text
            canonical ==
                /\ ds # <<>>
                /\ \A j \in 1..Len(ds) : IsAsciiDigit(ds[j])
                /\ Len(ds) > 1 => ds[1] # B.zero
                /\ ~(neg /\ ds = <<B.zero>>)
                /\ DigitsLeq(DigitsOf(ds), IF neg THEN I64MinDigits ELSE I64MaxDigits)
        IN  IF canonical
            THEN last.st = "ok" /\ I64ToString(last.val) = text /\ position = close
            ELSE last.st = "err" /\ last.err = InvalidInteger

\* C10: the typed encoder returns its Message error, and writes nothing,
\* for every float and every enum variant kind (and the error for a
\* sequence or an option holding one); the typed decoder returns
\* its Message error for a float or enum target on every input, its cursor
\* still at 0.
C10_UnsupportedShapesRejected ==
    /\ (mode = "ser" /\ last.op = "serialize"
            /\ last.arg.k \in FloatKinds \cup VariantKinds) =>
            /\ last.st = "err"
            /\ last.err = IF last.arg.k \in FloatKinds THEN NoFloats ELSE NoEnums
            /\ output = last.before
    /\ (mode = "ser" /\ last.op = "serialize" /\ last.arg.k \in {"some", "seq"}
            /\ \E j \in 1..Len(last.arg.sub) :
                    last.arg.sub[j].k \in FloatKinds \cup VariantKinds) =>
            /\ last.st = "err"
            /\ last.err \in {NoFloats, NoEnums}
    /\ mode = "ser" =>
            \A i \in 1..Len(visits) :
                (visits[i].op = "value" /\ visits[i].arg.k \in FloatKinds) =>
                    /\ visits[i].st = "err"
                    /\ visits[i].err = IF visits[i].pending THEN NoFloats
                                       ELSE ValueBeforeKey
    /\ (mode = "de" /\ phase # "new" /\ target.k \in FloatKinds \cup {"enum"}) =>
            /\ last.op = "from_bytes"
            /\ last.st = "err"
            /\ last.err = IF target.k = "enum" THEN NoEnums ELSE NoFloats
            /\ position = 0

\* from_bytes into a float target has returned on the input i42e, a whole
\* integer an approximation could have been read from.
C10_FloatTargetOnInteger ==
    /\ mode = "de" /\ target.k = "f64" /\ last.op = "from_bytes"
    /\ input = <<105, 52, 50, 101>>
    /\ last.st = "err"

\* C11: decode_byte_string reads an unsigned decimal length, requires the
\* ':' and returns exactly that many of the bytes after it, unmodified, with
\* the position just past them; it fails with UnexpectedEof when fewer bytes
\* remain or the ':' is never reached, and with InvalidCharacter when a byte
\* that is not a digit comes before the ':'.
C11_ByteStringDecoding ==
    (mode = "raw" /\ last.op = "decode_byte_string") =>
        LET rest == SubSeq(input, last.before + 1, Len(input))
            stops == {k \in 1..Len(rest) : ~IsAsciiDigit(rest[k])}
            stop == CHOOSE k \in stops : \A o \in stops : k <= o
            ds == StripZeros(DigitsOf(SubSeq(rest, 1, stop - 1)))
            remain == Len(rest) - stop
            short == IF Len(ds) > 9 THEN TRUE ELSE DigitsValue(ds) > remain
            len == DigitsValue(ds)
        IN  IF stops = {}
            THEN last.st = "err" /\ last.err = UnexpectedEof
            ELSE IF rest[stop] # B.colon
            THEN last.st = "err" /\ last.err[1] = "InvalidCharacter"
            ELSE IF stop = 1 THEN TRUE
            ELSE IF short
            THEN last.st = "err" /\ last.err = UnexpectedEof
            ELSE /\ last.st = "ok"
                 /\ last.val = SubSeq(rest, stop + 1, stop + len)
                 /\ position = last.before + stop + len

\* C12: record decoding walks the dictionary entry by entry: every key that
\* is a byte string (of any bytes) is read as the entry's key, known or
\* unknown; the value of a known key is decoded into that field wherever
\* the key stands, the value of an unknown key is skipped as exactly one
\* complete value (a scalar, a list or a dictionary, nested ones included)
\* and changes no field, and at the end of a dictionary without the
\* required key the decode fails with a Message error.
C12_RecordWalk ==
    [][(mode = "de" /\ target.k = "struct") =>
        LET f == FieldIndex(target.fields, acc.key)
            slice == SubSeq(input, position + 1, position')
            numeral == SubSeq(slice, 2, Len(slice) - 1)
            complete == Values \cup {DictValue({<<(<<>>), ListValue(<<>>)>>})}
            key == DecodeByteString(input, position)
        IN  /\ (phase = "key" /\ last'.op = "next_key" /\ key.st = "ok") =>
                /\ last'.st = "ok"
                /\ last'.val = Some(key.val)
                /\ position' = key.pos
            /\ (phase = "value" /\ last'.op = "next_value" /\ f = 0
                    /\ \E v \in complete :
                           /\ Len(input) >= position + Len(Encode(v))
                           /\ SubSeq(input, position + 1, position + Len(Encode(v))) = Encode(v)) =>
                last'.st = "ok"
            /\ (phase = "value" /\ last'.op = "next_value" /\ last'.st = "ok" /\ f = 0) =>
                /\ acc'.slots = acc.slots
                /\ \E v \in complete : slice = Encode(v)
            /\ (phase = "value" /\ last'.op = "next_value" /\ last'.st = "ok" /\ f # 0) =>
                /\ slice[1] = B.i /\ slice[Len(slice)] = B.e
                /\ \A k \in 1..Len(numeral) : numeral[k] # B.e
                /\ ParseI64(numeral).ok
                /\ acc'.slots[f] =
                       IF f = 1 THEN Some(ParseI64(numeral).n)
                       ELSE Some(Some(ParseI64(numeral).n))
                /\ \A o \in 1..Len(target.fields) : o # f => acc'.slots[o] = acc.slots[o]
            /\ (phase = "map_end" /\ last'.op = "from_bytes") =>
                IF acc.slots[1].some
                THEN /\ last'.st = "ok" => /\ last'.val[1] = acc.slots[1].v
                                           /\ last'.val[2] = IF acc.slots[2].some
                                                             THEN acc.slots[2].v ELSE None
                ELSE last'.st = "err" /\ last'.err[1] = "Message"
            /\ (last'.op = "from_bytes" /\ last'.st = "ok"
                    /\ input \in {<<100, 49, 58, 97, 105, 49, 101, 49, 58, 98, 105, 48, 101, 101>>,
                                  <<100, 49, 58, 98, 105, 48, 101, 49, 58, 97, 105, 49, 101, 101>>}) =>
                last'.val = <<1, Some(0)>>
            /\ (last'.op \in {"from_bytes", "next_key", "next_value"}
                    /\ phase' \in {"done", "failed"}
                    /\ input \in {<<100, 49, 58, 122, 100, 48, 58, 108, 101, 101, 49, 58, 97, 105, 49, 101, 101>>,
                                  <<100, 49, 58, 255, 105, 49, 101, 49, 58, 97, 105, 49, 101, 101>>,
                                  <<100, 50, 58, 195, 169, 105, 52, 50, 101, 49, 58, 97, 105, 49, 101, 101>>}) =>
                /\ last'.op = "from_bytes" /\ last'.st = "ok"
                /\ last'.val = <<1, None>>
      ]_vars

\* C13: bytes after a complete top-level value are not flagged: on a buffer
\* that starts with the encoding p of a value, whatever follows p, the raw
\* decode_value and the typed from_bytes succeed with the value of p and
\* leave the cursor at the length of p.
C13_TrailingBytesNotFlagged ==
    /\ (mode = "raw" /\ source # NoSource /\ last.op = "decode_value" /\ last.n = 1) =>
            /\ last.st = "ok"
            /\ last.val = source
            /\ position = Len(Encode(source))
    /\ (mode = "de" /\ phase \in {"done", "failed"}) =>
            LET whole == CASE target = I64 -> {IntV(0), IntV(1), IntV(42), IntV(0 - 3)}
                           [] target = Ty("bytes") -> {BytesV(<<>>), BytesV(KeyA), BytesV(<<B.zero>>)}
                           [] target = SeqOf(I64) -> {SeqV(<<>>), SeqV(<<IntV(1)>>),
                                                      SeqV(<<IntV(1), IntV(0)>>)}
                           [] OTHER -> {}
                decoded(v) == CASE v.k = "i64" -> v.n
                                [] v.k = "bytes" -> v.b
                                [] v.k = "seq" -> [j \in 1..Len(v.sub) |-> v.sub[j].n]
            IN  \A v \in whole :
                    LET p == ToBytes(v).out
                    IN  (Len(input) >= Len(p) /\ SubSeq(input, 1, Len(p)) = p) =>
                            /\ last.st = "ok"
                            /\ last.val = decoded(v)
                            /\ position = Len(p)

\* C14: in every reachable state of a raw Decoder or a typed Deserializer
\* the position lies between 0 and the length of the input, peek leaves it
\* where it is, and no operation, successful or failed, moves it backwards.
C14_PositionMonotoneInBounds ==
    /\ [](mode \in {"raw", "de"} =>
            /\ 0 <= position /\ position <= Len(input)
            /\ last.before <= position
            /\ Peek(input, position).pos = position)
    /\ [][(mode \in {"raw", "de"}) => (position <= position')]_vars

\* A typed decode that had already advanced has failed in a call that moved
\* the cursor further before failing.
C14_FailureAfterProgress ==
    /\ mode = "de" /\ last.st = "err"
    /\ 0 < last.before /\ last.before < position
    /\ position <= Len(input)

\* C15: while a map or record is open, a key visit, a value visit and a
\* field visit append nothing to the parent sink; end() appends 'd', then
\* every staged (key bytes, value bytes) pair exactly once, two pairs with
\* equal keys included, then 'e', and nothing else.
C15_StagedThenFlushed ==
    mode = "ser" =>
        LET staged == {i \in 1..Len(visits) : visits[i].op = "value" /\ visits[i].st = "ok"}
            pair(i) == EncodeByteString(visits[i - 1].arg.b)
                       \o (IF visits[i].arg.k = "none" THEN <<>>
                           ELSE EncodeInteger(visits[i].arg.n))
            orders == {o \in [1..Cardinality(staged) -> staged] :
                         \A j, k \in 1..Cardinality(staged) : j # k => o[j] # o[k]}
            flushed(o) == FlushEntries([j \in 1..Cardinality(staged) |-> <<pair(o[j]), <<>>>>])
        IN  /\ last.op \in {"serialize_key", "serialize_value", "serialize_field"} =>
                    output = last.before
            /\ last.op = "end" =>
                    \E o \in orders :
                        output = last.before \o <<B.d>> \o flushed(o) \o <<B.e>>
            /\ (last.op = "serialize" /\ last.st = "ok" /\ last.arg.k = "seq"
                    /\ Len(last.arg.sub) = 2 /\ last.arg.sub[2].k = "map") =>
                    \* li1e d 1:ai2e 1:ai0e 1:bi1e e e
                    output = <<108, 105, 49, 101, 100, 49, 58, 97, 105, 50, 101,
                               49, 58, 97, 105, 48, 101, 49, 58, 98, 105, 49, 101, 101, 101>>

\* end() has flushed a map on which the same key was visited twice, each
\* time followed by its value.
C15_EqualKeysFlushed ==
    /\ mode = "ser" /\ last.op = "end" /\ Len(visits) = 4
    /\ visits[1].op = "key" /\ visits[3].op = "key" /\ visits[1].arg = visits[3].arg
    /\ visits[2].op = "value" /\ visits[4].op = "value"
    /\ visits[2].arg # visits[4].arg

\* C16: list decoding consumes the 'l', decodes the elements in input order
\* until the next byte is 'e' and advances past that 'e': le is the empty
\* list, an inner 'e' closes only its own list, and a list whose terminator
\* is missing fails with UnexpectedEof; the typed list iterator reports
\* exhaustion at the same point, after the same number of elements.
C16_ListDecoding ==
    /\ (mode = "raw" /\ last.op = "decode_value" /\ last.n = 1
            /\ source # NoSource /\ source.t = "list") =>
            /\ last.st = "ok"
            /\ last.val = source
            /\ position = Len(Encode(source))
    /\ (mode = "raw" /\ last.op = "decode_value" /\ last.n = 1
            /\ input = <<108, 108, 105, 49, 101, 101, 101>>) =>
            /\ last.st = "ok"
            /\ last.val = ListValue(<<ListValue(<<IntegerValue(1)>>)>>)
            /\ position = 7
    /\ (mode = "raw" /\ last.op = "decode_value" /\ last.n = 1 /\ source = NoSource) =>
            LET lists == ListValues \cup {ListValue(<<IntegerValue(1)>>),
                                          ListValue(<<ListValue(<<>>)>>),
                                          ListValue(<<DictValue({})>>)}
                open(v) == SubSeq(Encode(v), 1, Len(Encode(v)) - 1)
            IN  (\E v \in lists : input = open(v)) =>
                    (last.st = "err" /\ last.err = UnexpectedEof)
    /\ (mode = "de" /\ target.k = "seq" /\ phase # "new") =>
            LET raw == DecodeList(input, 0)
            IN  raw.st = "ok" =>
                    /\ Len(acc.items) <= Len(raw.val.items)
                    /\ (last.op = "next_element" /\ last.st = "ok" /\ ~last.val.some) =>
                            /\ position + 1 = raw.pos
                            /\ Len(acc.items) = Len(raw.val.items)

\* C17: no typed integer conversion wraps silently: serializing a u64 v
\* writes 'i', the decimal numeral of v and 'e' for every v up to 2^64 - 1,
\* and a successful decode of the integer n into an i8, i16, i32, u8, u16,
\* u32 or u64 target yields exactly n, never n reduced modulo 2^w.
C17_NoSilentWrap ==
    /\ (mode = "ser" /\ last.op = "serialize" /\ last.arg.k = "u64") =>
            /\ last.st = "ok"
            /\ output = <<B.i>> \o WordDigits(last.arg.w) \o <<B.e>>
    /\ (mode = "de" /\ last.op = "from_bytes" /\ last.st = "ok"
            /\ target.k \in {"i8", "i16", "i32", "u8", "u16", "u32", "u64"}) =>
            LET n == ParseInteger(input, 0).val
            IN  IF target.k \in {"u32", "u64"}
                THEN n >= 0 /\ last.val = WordOf(n)
                ELSE last.val = n

====
